---- MODULE Spec2Model ----
(***************************************************************************)
(* Model of app.py, the sales dashboard script.  One run of the script     *)
(* (a "pass") is a sequence of steps in script order; an uncaught          *)
(* exception ends the pass where it is raised.                             *)
(*                                                                         *)
(* Representation.                                                         *)
(*   text     a sequence of tokens (digits, "-", " ", or a whole word)     *)
(*   file     [present, lines]: lines is a sequence of records, each a     *)
(*            sequence of fields, each field a text; lines[1] is the       *)
(*            header (the comma splitting itself is not modelled)          *)
(*   table    [columns, index, col]: the column names in order, the row    *)
(*            labels, and per column its dtype and its values              *)
(*   number   [k, v]: k = "num" with v in thousandths, k = "nan", or       *)
(*            k = "inf" with v the sign                                    *)
(***************************************************************************)
EXTENDS Integers, Sequences, FiniteSets, TLC

VARIABLES upload_file, confidence_level, test_mean, filter_category,
          df_loaded, df_sales, download, summary, ci, ttest, verdict,
          rendered, error, pc

vars == <<upload_file, confidence_level, test_mean, filter_category,
          df_loaded, df_sales, download, summary, ci, ttest, verdict,
          rendered, error, pc>>

(***************************************************************************)
(* Bounds of the model.                                                    *)
(***************************************************************************)
\* rows of an uploaded file in a full pass
MaxRows == 2
\* largest units_sold value drawn
MaxUnits == 2
\* rows of the generated sample (20 in the script, scaled down)
SampleRows == 1
\* rows of the table the statistics section is started on
StatRows == 4

(***************************************************************************)
(* Generic helpers.                                                        *)
(***************************************************************************)
Range(s) == {s[i] : i \in DOMAIN s}

SeqsUpTo(S, n) == UNION {[1..k -> S] : k \in 0..n}

RECURSIVE SumSeq(_)
SumSeq(s) == IF s = <<>> THEN 0 ELSE Head(s) + SumSeq(Tail(s))

\* the elements of a finite set of integers in increasing order
RECURSIVE SortedSeq(_)
SortedSeq(S) ==
    IF S = {} THEN <<>>
    ELSE LET m == CHOOSE x \in S : \A y \in S : x <= y
         IN  <<m>> \o SortedSeq(S \ {m})

\* floor of the square root, by bisection on lo..hi (x < 2^31)
RECURSIVE ISqrtIn(_, _, _)
ISqrtIn(x, lo, hi) ==
    IF lo >= hi THEN lo
    ELSE LET mid == (lo + hi + 1) \div 2
         IN  IF mid * mid <= x THEN ISqrtIn(x, mid, hi)
                               ELSE ISqrtIn(x, lo, mid - 1)

ISqrt(x) == ISqrtIn(x, 0, IF x < 46340 THEN x ELSE 46340)

Abs(x) == IF x < 0 THEN -x ELSE x

(***************************************************************************)
(* Numbers as the statistics produce them.                                 *)
(***************************************************************************)
Num(v) == [k |-> "num", v |-> v]
NaN == [k |-> "nan", v |-> 0]
Inf(sign) == [k |-> "inf", v |-> sign]
IsNum(x) == x.k = "num"
IsNaN(x) == x.k = "nan"

\* IEEE arithmetic on the three kinds, as far as the script needs it
Sub(a, b) ==
    IF IsNaN(a) \/ IsNaN(b) THEN NaN
    ELSE IF IsNum(a) /\ IsNum(b) THEN Num(a.v - b.v)
    ELSE IF IsNum(b) THEN a
    ELSE IF IsNum(a) THEN Inf(-b.v)
    ELSE IF a.v = b.v THEN NaN ELSE a

Add(a, b) ==
    IF IsNaN(a) \/ IsNaN(b) THEN NaN
    ELSE IF IsNum(a) /\ IsNum(b) THEN Num(a.v + b.v)
    ELSE IF IsNum(b) THEN a
    ELSE IF IsNum(a) THEN b
    ELSE IF a.v = b.v THEN a ELSE NaN

\* a < b on floats: any comparison with NaN is false
Less(a, b) ==
    IF IsNaN(a) \/ IsNaN(b) THEN FALSE
    ELSE IF IsNum(a) /\ IsNum(b) THEN a.v < b.v
    ELSE IF IsNum(a) THEN b.v > 0
    ELSE IF IsNum(b) THEN a.v < 0
    ELSE a.v < b.v

(***************************************************************************)
(* Text and CSV fields.                                                    *)
(***************************************************************************)
Digits == <<"0", "1", "2", "3", "4", "5", "6", "7", "8", "9">>

DigitVal(c) == (CHOOSE i \in 1..10 : Digits[i] = c) - 1

IsDigit(c) == c \in Range(Digits)

\* str(n) for n >= 0
RECURSIVE IntToText(_)
IntToText(n) ==
    IF n < 10 THEN <<Digits[n + 1]>>
    ELSE IntToText(n \div 10) \o <<Digits[(n % 10) + 1]>>

\* a field the CSV reader takes for an integer
IsIntText(t) == t # <<>> /\ \A i \in DOMAIN t : IsDigit(t[i])

RECURSIVE TextToInt(_)
TextToInt(t) ==
    IF t = <<>> THEN 0
    ELSE 10 * TextToInt(SubSeq(t, 1, Len(t) - 1)) + DigitVal(t[Len(t)])

\* a day of January 2023 as to_csv writes a datetime64 cell: 2023-01-dd
DateToText(d) ==
    <<"2", "0", "2", "3", "-", "0", "1", "-">>
        \o <<Digits[(d \div 10) + 1], Digits[(d % 10) + 1]>>

(***************************************************************************)
(* Tables.                                                                 *)
(***************************************************************************)
NoTable == [columns |-> <<>>, index |-> <<>>, col |-> <<>>]

NoFile == [present |-> FALSE, lines |-> <<>>]

NRows(df) == Len(df.index)

HasColumn(df, name) == name \in Range(df.columns)

\* the category multiselect's options
Options == {"Electronics", "Clothing", "Home", "Sports"}

\* generate_sample_data(): the seeded draws are not derivable from the
\* script, so cats and units range over every outcome of the two draws
SampleTable(cats, units) ==
    LET n == Len(cats)
    IN  [columns |-> <<"product_id", "product_name", "category",
                       "units_sold", "sale_date">>,
         index |-> [i \in 1..n |-> i - 1],
         col |-> [c \in {"product_id", "product_name", "category",
                         "units_sold", "sale_date"} |->
            CASE c = "product_id" ->
                    [dtype |-> "int64", values |-> [i \in 1..n |-> i]]
              [] c = "product_name" ->
                    [dtype |-> "object",
                     values |-> [i \in 1..n |->
                                    <<"Product", " ">> \o IntToText(i)]]
              [] c = "category" ->
                    [dtype |-> "object",
                     values |-> [i \in 1..n |-> <<cats[i]>>]]
              [] c = "units_sold" ->
                    [dtype |-> "int64", values |-> units]
              [] c = "sale_date" ->
                    [dtype |-> "datetime64",
                     values |-> [i \in 1..n |-> i]]]]

SampleTables ==
    {SampleTable(cats, units) :
        cats \in [1..SampleRows -> Options],
        units \in [1..SampleRows -> 1..MaxUnits]}

\* to_csv's text of one cell
CellToText(dtype, v) ==
    CASE dtype = "int64" -> IntToText(v)
      [] dtype = "datetime64" -> DateToText(v)
      [] OTHER -> v

\* download_df(df): header record, then one record per row, no index
download_df(df) ==
    [present |-> TRUE,
     lines |->
        <<[j \in 1..Len(df.columns) |-> <<df.columns[j]>>]>>
        \o [i \in 1..NRows(df) |->
              [j \in 1..Len(df.columns) |->
                  CellToText(df.col[df.columns[j]].dtype,
                             df.col[df.columns[j]].values[i])]]]

\* pd.read_csv raises EmptyDataError on a file with no header line
CsvParses(file) == Len(file.lines) >= 1

\* the column read_csv builds from the fields of one position: int64 when
\* every field is an integer, object (the fields as strings) otherwise
ParseColumn(fields) ==
    IF fields # <<>> /\ \A i \in DOMAIN fields : IsIntText(fields[i])
    THEN [dtype |-> "int64",
          values |-> [i \in DOMAIN fields |-> TextToInt(fields[i])]]
    ELSE [dtype |-> "object", values |-> fields]

\* load_csv(file), for a file that parses
load_csv(file) ==
    LET header == file.lines[1]
        n == Len(file.lines) - 1
        names == [j \in 1..Len(header) |-> header[j][1]]
        pos(c) == CHOOSE j \in 1..Len(header) : names[j] = c
    IN  [columns |-> names,
         index |-> [i \in 1..n |-> i - 1],
         col |-> [c \in Range(names) |->
                    ParseColumn([i \in 1..n |-> file.lines[i + 1][pos(c)]])]]

(***************************************************************************)
(* Statistics over the units_sold column.                                  *)
(***************************************************************************)
Units(df) == df.col["units_sold"].values

Count(s, v) == Cardinality({i \in DOMAIN s : s[i] = v})

\* the values of s in non-decreasing order
RECURSIVE SortValues(_)
SortValues(s) ==
    IF s = <<>> THEN <<>>
    ELSE LET m == CHOOSE x \in Range(s) : \A y \in Range(s) : x <= y
             i == CHOOSE j \in DOMAIN s : s[j] = m
         IN  <<m>> \o SortValues(SubSeq(s, 1, i - 1) \o SubSeq(s, i + 1, Len(s)))

\* Mean with the empty case guarded by 0
MeanOrZero(s) == IF s = <<>> THEN Num(0) ELSE Num((SumSeq(s) * 1000) \div Len(s))

\* Series.mean(): NaN for no rows
Mean(s) == IF s = <<>> THEN NaN ELSE Num((SumSeq(s) * 1000) \div Len(s))

\* Series.quantile(q4 / 4) with linear interpolation; the median is q4 = 2
Quantile(s, q4) ==
    IF s = <<>> THEN NaN
    ELSE LET x == SortValues(s)
             k == ((Len(s) - 1) * q4) \div 4
             r == ((Len(s) - 1) * q4) % 4
         IN  IF r = 0 THEN Num(x[k + 1] * 1000)
             ELSE Num(x[k + 1] * 1000 + (x[k + 2] - x[k + 1]) * 250 * r)

Median(s) == Quantile(s, 2)

\* n * sum(x^2) - sum(x)^2, which is n * (n - 1) times the sample variance
VarNumerator(s) ==
    Len(s) * SumSeq([i \in DOMAIN s |-> s[i] * s[i]]) - SumSeq(s) * SumSeq(s)

\* Series.std() with divisor n - 1: NaN below two rows
Std(s) ==
    IF Len(s) <= 1 THEN NaN
    ELSE Num(ISqrt((VarNumerator(s) * 1000000) \div (Len(s) * (Len(s) - 1))))

\* Mode with the most frequent values in decreasing order
ModeDescending(s) ==
    LET m == SortedSeq({v \in Range(s) :
                           \A w \in Range(s) : Count(s, w) <= Count(s, v)})
    IN  [i \in DOMAIN m |-> m[Len(m) + 1 - i]]

\* Series.mode(): the most frequent values in increasing order
Mode(s) ==
    SortedSeq({v \in Range(s) : \A w \in Range(s) : Count(s, w) <= Count(s, v)})

\* df['units_sold'].mode().iloc[0] if not ....empty else np.nan
ModeVal(s) == IF Mode(s) = <<>> THEN NaN ELSE Num(Mode(s)[1] * 1000)

\* the exception calculate_descriptive_stats raises, "" for none: the column
\* lookup fails without the column, and mean() fails on strings
DescriptiveError(df) ==
    IF ~HasColumn(df, "units_sold") THEN "KeyError"
    ELSE IF df.col["units_sold"].dtype = "object" /\ NRows(df) > 0
         THEN "TypeError"
         ELSE ""

calculate_descriptive_stats(df) ==
    LET s == Units(df)
    IN  [desc_stats |-> [count |-> Len(s), mean |-> Mean(s), std |-> Std(s),
                         min |-> IF s = <<>> THEN NaN
                                 ELSE Num(SortValues(s)[1] * 1000),
                         q25 |-> Quantile(s, 1), q50 |-> Quantile(s, 2),
                         q75 |-> Quantile(s, 3),
                         max |-> IF s = <<>> THEN NaN
                                 ELSE Num(SortValues(s)[Len(s)] * 1000)],
         mean_val |-> Mean(s),
         median_val |-> Median(s),
         mode_val |-> ModeVal(s)]

NoSummary == [desc_stats |-> [count |-> 0, mean |-> NaN, std |-> NaN,
                              min |-> NaN, q25 |-> NaN, q50 |-> NaN,
                              q75 |-> NaN, max |-> NaN],
              mean_val |-> NaN, median_val |-> NaN, mode_val |-> NaN]

(***************************************************************************)
(* Student's t: the quantiles at (1 + c) / 2 in thousandths, for the       *)
(* confidence levels c of the model and 1 to 6 degrees of freedom.         *)
(***************************************************************************)
ConfidenceLevels == <<80, 85, 90, 95, 99>>

TTable ==
    <<  <<3078, 4165, 6314, 12706, 63657>>,
        <<1886, 2282, 2920, 4303, 9925>>,
        <<1638, 1924, 2353, 3182, 5841>>,
        <<1533, 1778, 2132, 2776, 4604>>,
        <<1476, 1699, 2015, 2571, 4032>>,
        <<1440, 1650, 1943, 2447, 3707>>  >>

LevelIndex(c) == CHOOSE i \in DOMAIN ConfidenceLevels : ConfidenceLevels[i] = c

\* TPpf at (1 - c) / 2, the lower tail
TPpfLowerTail(c, dof) ==
    IF dof <= 0 THEN NaN ELSE Num(-TTable[dof][LevelIndex(c)])

\* stats.t.ppf((1 + c) / 2, dof): NaN unless dof > 0
TPpf(c, dof) == IF dof <= 0 THEN NaN ELSE Num(TTable[dof][LevelIndex(c)])

\* the two-tailed probability of |t| >= tabs in thousandths, taken down to
\* the nearest tabulated level (1, .2, .15, .1, .05, .01, 0): it is below
\* .05 exactly when tabs exceeds the .975 quantile
TwoTailed(tabs, dof) ==
    IF tabs = 0 THEN 1000
    ELSE IF tabs <= TTable[dof][1] THEN 200
    ELSE IF tabs <= TTable[dof][2] THEN 150
    ELSE IF tabs <= TTable[dof][3] THEN 100
    ELSE IF tabs <= TTable[dof][4] THEN 50
    ELSE IF tabs <= TTable[dof][5] THEN 10
    ELSE 0

\* sqrt(var / n) with the variance's divisor n - 1: NaN below two rows
StandardError(s) ==
    IF Len(s) <= 1 THEN NaN
    ELSE Num(ISqrt((VarNumerator(s) * 1000000)
                       \div (Len(s) * Len(s) * (Len(s) - 1))))

\* stats.sem(x, ddof=1)
Sem(s) == StandardError(s)

\* t_crit * se
Mul(a, b) == IF IsNum(a) /\ IsNum(b) THEN Num((a.v * b.v) \div 1000) ELSE NaN

\* ttest_1samp with a zero difference over a zero standard error taken for
\* t = 0, p = 1
ttest_1sampZeroGuard(s, popmean) ==
    LET se == StandardError(s)
        d == Mean(s).v - popmean * 1000
        t == ((Abs(d) * 1000) \div se.v) * (IF d < 0 THEN -1 ELSE 1)
    IN  IF IsNaN(se) THEN <<NaN, NaN>>
        ELSE IF se.v = 0
             THEN IF d = 0 THEN <<Num(0), Num(1000)>>
                  ELSE <<Inf(IF d < 0 THEN -1 ELSE 1), Num(0)>>
             ELSE <<Num(t), Num(TwoTailed(Abs(t), Len(s) - 1))>>

\* stats.ttest_1samp(x, popmean): (mean - popmean) / se and its two-tailed
\* probability; 0 / 0 is NaN and d / 0 is infinite
ttest_1samp(s, popmean) ==
    LET se == StandardError(s)
        d == Mean(s).v - popmean * 1000
        t == ((Abs(d) * 1000) \div se.v) * (IF d < 0 THEN -1 ELSE 1)
    IN  IF IsNaN(se) THEN <<NaN, NaN>>
        ELSE IF se.v = 0
             THEN IF d = 0 THEN <<NaN, NaN>>
                  ELSE <<Inf(IF d < 0 THEN -1 ELSE 1), Num(0)>>
             ELSE <<Num(t), Num(TwoTailed(Abs(t), Len(s) - 1))>>

ConfidenceInterval(mean_val, margin_of_error) ==
    <<Sub(mean_val, margin_of_error), Add(mean_val, margin_of_error)>>

calculate_inferential_stats(df, c, popmean) ==
    LET s == Units(df)
        n == Len(s)
        mean_val == Mean(s)
        se == Sem(s)
        t_crit == TPpf(c, n - 1)
        margin_of_error == Mul(t_crit, se)
    IN  [ci |-> ConfidenceInterval(mean_val, margin_of_error),
         ttest |-> ttest_1samp(s, popmean)]

\* the hypothesized means the number input delivers (default 20.0, any float
\* in the script)
TestMeans == {1, 2}

\* the branch of the verdict: st.success when p < 0.05, st.info otherwise
Alpha == 50

\* Verdict with p <= 0.05
VerdictInclusive(p_val) ==
    IF Less(p_val, Num(Alpha)) \/ p_val = Num(Alpha) THEN "success" ELSE "info"

Verdict(p_val) == IF Less(p_val, Num(Alpha)) THEN "success" ELSE "info"

(***************************************************************************)
(* The category filter (lines 119-120).                                    *)
(***************************************************************************)
\* isin with the mask inverted
isinInverted(column, values) ==
    [i \in DOMAIN column.values |->
        ~(/\ column.dtype = "object"
          /\ \E o \in values : column.values[i] = <<o>>)]

\* Series.isin(values): one boolean per row
isin(column, values) ==
    [i \in DOMAIN column.values |->
        /\ column.dtype = "object"
        /\ \E o \in values : column.values[i] = <<o>>]

\* df[mask]: the rows whose mask is true, with their labels, in order
BoolIndex(df, mask) ==
    LET keep == SortedSeq({i \in DOMAIN mask : mask[i]})
    IN  [columns |-> df.columns,
         index |-> [j \in DOMAIN keep |-> df.index[keep[j]]],
         col |-> [c \in DOMAIN df.col |->
                    [dtype |-> df.col[c].dtype,
                     values |-> [j \in DOMAIN keep |->
                                    df.col[c].values[keep[j]]]]]]

FilterRows(df, selection) == BoolIndex(df, isin(df.col["category"], selection))

\* ShouldFilter that filters on an empty selection too
ShouldFilterAlways(selection) == selection = selection

\* line 119, `if filter_category:`: an empty selection does not filter
ShouldFilter(selection) == selection # {}

(***************************************************************************)
(* The files a user may upload.                                            *)
(***************************************************************************)
CatFields == {<<"Electronics">>, <<"Toys">>}

UnitFields == {IntToText(u) : u \in 1..MaxUnits} \cup {<<"x">>}

CsvFile(header, records) ==
    [present |-> TRUE,
     lines |-> <<[j \in DOMAIN header |-> <<header[j]>>]>> \o records]

UploadFiles ==
    {CsvFile(<<"category", "units_sold">>, r) :
        r \in SeqsUpTo({<<c, u>> : c \in CatFields, u \in UnitFields}, MaxRows)}
    \cup {CsvFile(<<"units_sold">>, r) :
        r \in SeqsUpTo({<<u>> : u \in UnitFields}, MaxRows)}
    \cup {CsvFile(<<"category">>, r) :
        r \in SeqsUpTo({<<c>> : c \in CatFields}, MaxRows)}
    \cup {[present |-> TRUE, lines |-> <<>>]}

(***************************************************************************)
(* The pass.                                                               *)
(***************************************************************************)
NoError == [exc |-> "", step |-> ""]

Init ==
    /\ upload_file = NoFile
    /\ confidence_level = 95
    /\ test_mean = 1
    /\ filter_category = {}
    /\ df_loaded = NoTable
    /\ df_sales = NoTable
    /\ download = NoFile
    /\ summary = NoSummary
    /\ ci = <<NaN, NaN>>
    /\ ttest = <<NaN, NaN>>
    /\ verdict = ""
    /\ rendered = <<>>
    /\ error = NoError
    /\ pc = "controls"

\* Raise with the exception caught and shown, the script going on to the
\* footer
RaiseAndGoOn(e) ==
    /\ error' = [exc |-> e, step |-> pc]
    /\ rendered' = Append(rendered, "exception")
    /\ pc' = "footer"

\* an uncaught exception: Streamlit shows it in place and stops the script
Raise(e) ==
    /\ error' = [exc |-> e, step |-> pc]
    /\ rendered' = Append(rendered, "exception")
    /\ pc' = "halted"

\* lines 17-26 and 105-109: the page header, then the sidebar widgets
\* deliver the user's current settings
Controls ==
    /\ pc = "controls"
    /\ \E f \in UploadFiles \cup {NoFile},
          c \in Range(ConfidenceLevels),
          m \in TestMeans,
          sel \in SUBSET Options :
            /\ upload_file' = f
            /\ confidence_level' = c
            /\ test_mean' = m
            /\ filter_category' = sel
    /\ rendered' = Append(rendered, "header")
    /\ pc' = "load"
    /\ UNCHANGED <<df_loaded, df_sales, download, summary, ci, ttest,
                   verdict, error>>

\* lines 114-117
LoadData ==
    /\ pc = "load"
    /\ \/ /\ upload_file.present
          /\ CsvParses(upload_file)
          /\ df_loaded' = load_csv(upload_file)
          /\ df_sales' = load_csv(upload_file)
          /\ pc' = "filter"
          /\ UNCHANGED <<rendered, error>>
       \/ /\ upload_file.present
          /\ ~CsvParses(upload_file)
          /\ Raise("EmptyDataError")
          /\ UNCHANGED <<df_loaded, df_sales>>
       \/ /\ ~upload_file.present
          /\ \E t \in SampleTables :
                /\ df_loaded' = t
                /\ df_sales' = t
          /\ pc' = "filter"
          /\ UNCHANGED <<rendered, error>>
    /\ UNCHANGED <<upload_file, confidence_level, test_mean, filter_category,
                   download, summary, ci, ttest, verdict>>

\* lines 119-120
FilterData ==
    /\ pc = "filter"
    /\ \/ /\ ~ShouldFilter(filter_category)
          /\ pc' = "show"
          /\ UNCHANGED <<df_sales, rendered, error>>
       \/ /\ ShouldFilter(filter_category)
          /\ HasColumn(df_sales, "category")
          /\ df_sales' = FilterRows(df_sales, filter_category)
          /\ pc' = "show"
          /\ UNCHANGED <<rendered, error>>
       \/ /\ ShouldFilter(filter_category)
          /\ ~HasColumn(df_sales, "category")
          /\ Raise("KeyError")
          /\ UNCHANGED df_sales
    /\ UNCHANGED <<upload_file, confidence_level, test_mean, filter_category,
                   df_loaded, download, summary, ci, ttest, verdict>>

\* lines 122-124: the table, then the download button with its bytes
ShowData ==
    /\ pc = "show"
    /\ download' = download_df(df_sales)
    /\ rendered' = rendered \o <<"sales_data", "download_button">>
    /\ pc' = "describe"
    /\ UNCHANGED <<upload_file, confidence_level, test_mean, filter_category,
                   df_loaded, df_sales, summary, ci, ttest, verdict, error>>

\* lines 129-135
Descriptive ==
    /\ pc = "describe"
    /\ \/ /\ DescriptiveError(df_sales) = ""
          /\ summary' = calculate_descriptive_stats(df_sales)
          /\ rendered' = rendered \o <<"desc_stats", "metrics">>
          /\ pc' = "infer"
          /\ UNCHANGED error
       \/ /\ DescriptiveError(df_sales) # ""
          /\ Raise(DescriptiveError(df_sales))
          /\ UNCHANGED summary
    /\ UNCHANGED <<upload_file, confidence_level, test_mean, filter_category,
                   df_loaded, df_sales, download, ci, ttest, verdict>>

\* scipy on a column of dtype object (a header-only upload): whether it
\* answers NaN or raises depends on the library version
InferentialMayRaise(df) == df.col["units_sold"].dtype = "object"

\* lines 140-143
Inferential ==
    /\ pc = "infer"
    /\ \/ /\ ci' = calculate_inferential_stats(df_sales, confidence_level,
                                               test_mean).ci
          /\ ttest' = calculate_inferential_stats(df_sales, confidence_level,
                                                  test_mean).ttest
          /\ rendered' = rendered \o <<"ci", "ttest">>
          /\ pc' = "verdict"
          /\ UNCHANGED error
       \/ /\ InferentialMayRaise(df_sales)
          /\ Raise("TypeError")
          /\ UNCHANGED <<ci, ttest>>
    /\ UNCHANGED <<upload_file, confidence_level, test_mean, filter_category,
                   df_loaded, df_sales, download, summary, verdict>>

\* lines 145-148
VerdictStep ==
    /\ pc = "verdict"
    /\ verdict' = Verdict(ttest[2])
    /\ rendered' = Append(rendered, Verdict(ttest[2]))
    /\ pc' = "histogram"
    /\ UNCHANGED <<upload_file, confidence_level, test_mean, filter_category,
                   df_loaded, df_sales, download, summary, ci, ttest, error>>

\* seaborn's categorical plots on a table without rows: drawn empty or
\* ValueError, depending on the library version
ChartMayRaise(df) == NRows(df) = 0

\* histplot(kde=True) on fewer than two observations: the density estimate
\* is skipped or raises ValueError, depending on the library version
HistogramMayRaise(df) == NRows(df) <= 1

\* lines 153-154: plot_histogram
Histogram ==
    /\ pc = "histogram"
    /\ \/ /\ rendered' = Append(rendered, "histogram")
          /\ pc' = "boxplot"
          /\ UNCHANGED error
       \/ /\ HistogramMayRaise(df_sales)
          /\ Raise("ValueError")
    /\ UNCHANGED <<upload_file, confidence_level, test_mean, filter_category,
                   df_loaded, df_sales, download, summary, ci, ttest, verdict>>

\* line 155: plot_boxplot
Boxplot ==
    /\ pc = "boxplot"
    /\ \/ /\ HasColumn(df_sales, "category")
          /\ rendered' = Append(rendered, "boxplot")
          /\ pc' = "barplot"
          /\ UNCHANGED error
       \/ /\ ~HasColumn(df_sales, "category") \/ ChartMayRaise(df_sales)
          /\ Raise("ValueError")
    /\ UNCHANGED <<upload_file, confidence_level, test_mean, filter_category,
                   df_loaded, df_sales, download, summary, ci, ttest, verdict>>

\* line 156: plot_barplot
Barplot ==
    /\ pc = "barplot"
    /\ \/ /\ HasColumn(df_sales, "category")
          /\ rendered' = Append(rendered, "barplot")
          /\ pc' = "footer"
          /\ UNCHANGED error
       \/ /\ ~HasColumn(df_sales, "category") \/ ChartMayRaise(df_sales)
          /\ Raise(IF HasColumn(df_sales, "category") THEN "ValueError"
                                                       ELSE "KeyError")
    /\ UNCHANGED <<upload_file, confidence_level, test_mean, filter_category,
                   df_loaded, df_sales, download, summary, ci, ttest, verdict>>

\* lines 161-196
Footer ==
    /\ pc = "footer"
    /\ rendered' = Append(rendered, "footer")
    /\ pc' = "done"
    /\ UNCHANGED <<upload_file, confidence_level, test_mean, filter_category,
                   df_loaded, df_sales, download, summary, ci, ttest, verdict,
                   error>>

\* the user's next interaction starts the script again from the top
Rerun ==
    /\ pc \in {"done", "halted"}
    /\ upload_file' = NoFile
    /\ confidence_level' = 95
    /\ test_mean' = 1
    /\ filter_category' = {}
    /\ df_loaded' = NoTable
    /\ df_sales' = NoTable
    /\ download' = NoFile
    /\ summary' = NoSummary
    /\ ci' = <<NaN, NaN>>
    /\ ttest' = <<NaN, NaN>>
    /\ verdict' = ""
    /\ rendered' = <<>>
    /\ error' = NoError
    /\ pc' = "controls"

Next ==
    \/ Controls
    \/ LoadData
    \/ FilterData
    \/ ShowData
    \/ Descriptive
    \/ Inferential
    \/ VerdictStep
    \/ Histogram
    \/ Boxplot
    \/ Barplot
    \/ Footer
    \/ Rerun

Spec == Init /\ [][Next]_vars

(***************************************************************************)
(* The statistics section alone (lines 129-148), started on any resolved   *)
(* table: the state of a pass that has shown the table of an upload.       *)
(***************************************************************************)
StatFiles ==
    {CsvFile(<<"category", "units_sold">>, r) :
        r \in SeqsUpTo({<<<<"Electronics">>, IntToText(u)>> : u \in 1..MaxUnits},
                       StatRows)}
    \cup {CsvFile(<<"category", "units_sold">>, <<<<<<"Electronics">>, <<"x">>>>>>),
          CsvFile(<<"category">>, <<<<<<"Electronics">>>>>>)}

InitStats ==
    /\ upload_file \in StatFiles
    /\ confidence_level \in Range(ConfidenceLevels)
    /\ test_mean \in TestMeans
    /\ filter_category \in {{}, {"Clothing"}}
    /\ df_loaded = load_csv(upload_file)
    /\ df_sales = IF ShouldFilter(filter_category)
                  THEN FilterRows(df_loaded, filter_category)
                  ELSE df_loaded
    /\ download = download_df(df_sales)
    /\ summary = NoSummary
    /\ ci = <<NaN, NaN>>
    /\ ttest = <<NaN, NaN>>
    /\ verdict = ""
    /\ rendered = <<"header", "sales_data", "download_button">>
    /\ error = NoError
    /\ pc = "describe"

NextStats ==
    \/ Descriptive
    \/ Inferential
    \/ VerdictStep

SpecStats == InitStats /\ [][NextStats]_vars

(***************************************************************************)
(* Export and re-upload: the bytes of the download button (line 124) are   *)
(* uploaded again and read by load_csv (line 115).                         *)
(***************************************************************************)
ExportTables ==
    {IF ShouldFilter(sel) THEN FilterRows(t, sel) ELSE t :
        t \in SampleTables, sel \in SUBSET Options}
    \cup {load_csv(f) : f \in {g \in UploadFiles : CsvParses(g)}}

InitCsv ==
    /\ upload_file = NoFile
    /\ confidence_level = 95
    /\ test_mean = 1
    /\ filter_category = {}
    /\ df_loaded = NoTable
    /\ df_sales \in ExportTables
    /\ download = NoFile
    /\ summary = NoSummary
    /\ ci = <<NaN, NaN>>
    /\ ttest = <<NaN, NaN>>
    /\ verdict = ""
    /\ rendered = <<>>
    /\ error = NoError
    /\ pc = "export"

\* line 124, the download button's data
ExportData ==
    /\ pc = "export"
    /\ download' = download_df(df_sales)
    /\ pc' = "upload"
    /\ UNCHANGED <<upload_file, confidence_level, test_mean, filter_category,
                   df_loaded, df_sales, summary, ci, ttest, verdict, rendered,
                   error>>

\* lines 106 and 115 on the downloaded bytes, the filter left empty
ReloadExport ==
    /\ pc = "upload"
    /\ upload_file' = download
    /\ df_loaded' = load_csv(download)
    /\ pc' = "reloaded"
    /\ UNCHANGED <<confidence_level, test_mean, filter_category, df_sales,
                   download, summary, ci, ttest, verdict, rendered, error>>

NextCsv ==
    \/ ExportData
    \/ ReloadExport

SpecCsv == InitCsv /\ [][NextCsv]_vars

(***************************************************************************)
(* The script's steps and what each puts on the page.                      *)
(***************************************************************************)
StepOrder ==
    <<"controls", "load", "filter", "show", "describe", "infer", "verdict",
      "histogram", "boxplot", "barplot", "footer">>

\* the outputs a step renders when it succeeds (v: the verdict's branch)
OutputsOf(step, v) ==
    CASE step = "controls" -> <<"header">>
      [] step = "show" -> <<"sales_data", "download_button">>
      [] step = "describe" -> <<"desc_stats", "metrics">>
      [] step = "infer" -> <<"ci", "ttest">>
      [] step = "verdict" -> <<v>>
      [] step = "histogram" -> <<"histogram">>
      [] step = "boxplot" -> <<"boxplot">>
      [] step = "barplot" -> <<"barplot">>
      [] step = "footer" -> <<"footer">>
      [] OTHER -> <<>>

\* the steps whose results an output is computed from
DependsOn(output) ==
    CASE output \in {"sales_data", "download_button"} -> {"load", "filter"}
      [] output \in {"desc_stats", "metrics"} -> {"load", "filter", "describe"}
      [] output \in {"ci", "ttest", "verdict"} -> {"load", "filter", "infer"}
      [] output = "histogram" -> {"load", "filter", "describe", "histogram"}
      [] output = "boxplot" -> {"load", "filter", "boxplot"}
      [] output = "barplot" -> {"load", "filter", "barplot"}
      [] OTHER -> {}

AllOutputs ==
    {"header", "sales_data", "download_button", "desc_stats", "metrics", "ci",
     "ttest", "verdict", "histogram", "boxplot", "barplot", "footer"}

(***************************************************************************)
(* Vocabulary of the properties.                                           *)
(***************************************************************************)
Shown(output) ==
    IF output = "verdict"
    THEN "success" \in Range(rendered) \/ "info" \in Range(rendered)
    ELSE output \in Range(rendered)

\* the filter step is over and the table is the one the later steps use
Resolved == pc = "show" \/ Shown("sales_data")

RowAt(df, j) == [c \in DOMAIN df.col |-> df.col[c].values[j]]

FilterTexts == {<<o>> : o \in filter_category}

\* the labels of the loaded rows whose category is selected
KeptLabels ==
    {df_loaded.index[i] : i \in
        {j \in 1..NRows(df_loaded) :
            df_loaded.col["category"].values[j] \in FilterTexts}}

RECURSIVE OutputsBeforeIn(_, _, _)
OutputsBeforeIn(steps, step, v) ==
    IF steps = <<>> \/ Head(steps) = step THEN <<>>
    ELSE OutputsOf(Head(steps), v) \o OutputsBeforeIn(Tail(steps), step, v)

\* what the steps before `step` render, in script order
OutputsBefore(step) == OutputsBeforeIn(StepOrder, step, verdict)

HeaderNames(file) == {file.lines[1][j][1] : j \in DOMAIN file.lines[1]}

UnitsPosition(file) ==
    CHOOSE j \in DOMAIN file.lines[1] : file.lines[1][j] = <<"units_sold">>

\* an upload without units_sold or category, or with a units_sold field
\* that is no number
SchemaMismatch(file) ==
    \/ "units_sold" \notin HeaderNames(file)
    \/ "category" \notin HeaderNames(file)
    \/ \E i \in 2..Len(file.lines) : ~IsIntText(file.lines[i][UnitsPosition(file)])

\* a resolved table with both columns and at most one row
Degenerate ==
    /\ Resolved
    /\ HasColumn(df_sales, "category")
    /\ HasColumn(df_sales, "units_sold")
    /\ NRows(df_sales) <= 1

NumericUnits == df_sales.col["units_sold"].dtype = "int64"

\* a computed statistics section over two or more rows of numbers
Computed(output) ==
    /\ Shown(output)
    /\ NumericUnits
    /\ NRows(df_sales) >= 2

ConstantAtTestMean == \A i \in DOMAIN Units(df_sales) : Units(df_sales)[i] = test_mean

\* the t-test's p-value and the interval's width at confidence level c, on
\* the table and hypothesized mean of the state
PValueAt(c) == calculate_inferential_stats(df_sales, c, test_mean).ttest[2]

WidthAt(c) ==
    LET r == calculate_inferential_stats(df_sales, c, test_mean).ci
    IN  r[2].v - r[1].v

Widths == [c \in Range(ConfidenceLevels) |-> WidthAt(c)]

(***************************************************************************)
(* Properties.                                                             *)
(***************************************************************************)
\* C1: with a non-empty category selection, the table every later step uses
\* holds exactly the loaded rows whose category is selected: same columns,
\* the selected rows' labels in increasing order, each kept row equal to the
\* loaded row of its label; filtering it again changes nothing, and the
\* download is the encoding of this table.
C1_FilterExact ==
    (Resolved /\ filter_category # {}) =>
        /\ df_sales.columns = df_loaded.columns
        /\ df_sales.index = SortedSeq(KeptLabels)
        /\ \A j \in 1..NRows(df_sales) :
              /\ RowAt(df_sales, j) = RowAt(df_loaded, df_sales.index[j] + 1)
              /\ df_sales.col["category"].values[j] \in FilterTexts
        /\ \A c \in DOMAIN df_sales.col :
              df_sales.col[c].dtype = df_loaded.col[c].dtype
        /\ FilterRows(df_sales, filter_category) = df_sales
        /\ download.present => download = download_df(df_sales)

C1_Witness ==
    /\ pc = "done"
    /\ filter_category # {}
    /\ NRows(df_loaded) = 2
    /\ df_sales.index = <<1>>

\* C2: with an empty category selection the resolved table is the loaded
\* table, every row retained.
C2_EmptyFilterKeepsAll ==
    (Resolved /\ filter_category = {}) =>
        /\ df_sales = df_loaded
        /\ NRows(df_sales) = NRows(df_loaded)

C2_Witness ==
    /\ pc = "done"
    /\ filter_category = {}
    /\ upload_file.present
    /\ NRows(df_sales) >= 2

\* C3: the rows of a table, exported by download_df and read back by
\* load_csv with no filter, are the original rows: same columns in the same
\* order, same number of rows, each cell of the same type and value.
C3_RoundTrip ==
    pc = "reloaded" =>
        /\ df_loaded.columns = df_sales.columns
        /\ NRows(df_loaded) = NRows(df_sales)
        /\ \A c \in DOMAIN df_sales.col :
              NRows(df_sales) > 0 =>
                  /\ df_loaded.col[c].dtype = df_sales.col[c].dtype
                  /\ df_loaded.col[c].values = df_sales.col[c].values

\* C4: an upload that lacks units_sold or category, or whose units_sold is
\* not numeric, is rejected when loaded: its table is never displayed nor
\* offered for download, and no statistic or chart is made from it.
C4_MismatchRejected ==
    (upload_file.present /\ CsvParses(upload_file) /\ SchemaMismatch(upload_file)) =>
        /\ ~download.present
        /\ \A o \in AllOutputs \ {"header", "footer"} : ~Shown(o)

C6_AsStated ==
    (Computed("ttest") /\ ConstantAtTestMean) => ttest = <<Num(0), Num(1000)>>

\* C6 amended: on two or more rows all equal to the hypothesized mean the
\* standard deviation is 0 and the t-statistic and the p-value are NaN (the
\* statistic is 0 / 0), with the "not significantly different" verdict.
C6_ConstantColumnUndefined ==
    (Computed("ttest") /\ ConstantAtTestMean) =>
        /\ summary.desc_stats.std = Num(0)
        /\ ttest = <<NaN, NaN>>
        /\ verdict # "" => verdict = "info"

C6_Witness ==
    /\ Computed("ttest")
    /\ ConstantAtTestMean
    /\ NRows(df_sales) = 3
    /\ verdict = "info"

\* C7 as stated: after a failure every output that does not depend on the
\* failed step is rendered in that pass.
C7_AsStated ==
    pc = "halted" =>
        \A o \in AllOutputs : error.step \notin DependsOn(o) => Shown(o)

\* C7 amended: a failure ends the pass where it happens: the page holds the
\* outputs of the steps before the failed one, in script order, then the
\* exception, and nothing of any later step.
C7_FailureEndsPass ==
    /\ error.exc # "" => pc = "halted"
    /\ pc = "halted" =>
          /\ error.exc # ""
          /\ rendered = OutputsBefore(error.step) \o <<"exception">>

C7_Witness ==
    /\ pc = "halted"
    /\ error.step = "boxplot"
    /\ Shown("sales_data")
    /\ Shown("histogram")
    /\ ~Shown("barplot")
    /\ ~Shown("footer")

\* C8: the mode of a non-empty table is the smallest of the units_sold
\* values of maximal frequency (20 for 20,20,20,25,25,30); of an empty
\* table it is NaN, and the descriptive step raises nothing.
C8_ModeSmallestMostFrequent ==
    /\ ModeVal(<<20, 20, 20, 25, 25, 30>>) = Num(20000)
    /\ (HasColumn(df_sales, "units_sold") /\ NRows(df_sales) = 0) =>
          error.step # "describe"
    /\ Shown("metrics") =>
          IF NRows(df_sales) = 0 THEN IsNaN(summary.mode_val)
          ELSE \E m \in Range(Units(df_sales)) :
                  /\ summary.mode_val = Num(m * 1000)
                  /\ \A w \in Range(Units(df_sales)) :
                        /\ Count(Units(df_sales), w) <= Count(Units(df_sales), m)
                        /\ Count(Units(df_sales), w) = Count(Units(df_sales), m)
                              => m <= w

C8_Witness ==
    /\ Shown("metrics")
    /\ NRows(df_sales) = 4
    /\ Count(Units(df_sales), 1) = 2
    /\ Count(Units(df_sales), 2) = 2
    /\ Units(df_sales)[1] = 2
    /\ summary.mode_val = Num(1000)

\* C9: on two or more rows the confidence interval contains the sample
\* mean, is symmetric about it, and is no wider at a lower confidence level
\* than at a higher one.
C9_IntervalAroundMean ==
    Computed("ci") =>
        /\ IsNum(ci[1]) /\ IsNum(ci[2])
        /\ ci[1].v <= summary.mean_val.v
        /\ summary.mean_val.v <= ci[2].v
        /\ summary.mean_val.v - ci[1].v = ci[2].v - summary.mean_val.v
        /\ ci[2].v - ci[1].v = WidthAt(confidence_level)
        /\ LET w == Widths
           IN  \A c1, c2 \in Range(ConfidenceLevels) :
                  c1 <= c2 => w[c1] <= w[c2]

C9_Witness ==
    /\ Computed("ci")
    /\ confidence_level = 95
    /\ ci[1].v < summary.mean_val.v
    /\ summary.mean_val.v < ci[2].v
    /\ WidthAt(80) < WidthAt(99)

\* C10: a pass that reaches the verdict shows exactly one verdict: the
\* "significantly different" branch when the p-value is a number below
\* 0.05, the other branch otherwise (p = 0.05 and NaN included), whatever
\* the confidence level.
C10_VerdictThreshold ==
    verdict # "" =>
        /\ verdict = "success" <=> (IsNum(ttest[2]) /\ ttest[2].v < 50)
        /\ verdict = "info" <=> ~(IsNum(ttest[2]) /\ ttest[2].v < 50)
        /\ Cardinality({i \in DOMAIN rendered :
                            rendered[i] \in {"success", "info"}}) = 1
        /\ verdict \in Range(rendered)
        /\ \A c \in Range(ConfidenceLevels) :
              LET p == PValueAt(c)
              IN  (verdict = "success") <=> (IsNum(p) /\ p.v < 50)

C10_Witness ==
    /\ verdict = "info"
    /\ ttest[2] = Num(50)
    /\ confidence_level = 80

====
